---- MODULE Spec2Model ----
(***************************************************************************)
(* Model of the two Hailo detection pipeline drivers:                      *)
(*   detection_tiling_pipeline.py              (shape "tile")              *)
(*   detection_preserve_resolution_pipeline.py (shape "split")             *)
(* The state is the driver object (args, pipeline, loop, frame_count), the *)
(* position of main()/run(), what was printed, the process exit code, and  *)
(* the running GStreamer graph seen from the driver: the bus queue, the    *)
(* buffers that crossed each pad, and whether the muxer wrote its trailer. *)
(* Real-valued parameters are held in tenths (0.2 is 2, 1.0 is 10).        *)
(***************************************************************************)
EXTENDS Integers, Sequences, FiniteSets, TLC

VARIABLES
    shape,          \* which driver runs: "tile" or "split"
    args,           \* the parsed command line (argparse Namespace)
    fs,             \* the file system as the driver finds it
    n_frames,       \* number of frames held by the input file
    pc,             \* position of main()/run()
    exit_code,      \* sys.exit status, -1 while the process runs
    pipeline,       \* self.pipeline: "None", then the graph's state
    loop,           \* self.loop: "None", "created", "running", "quit"
    probes,         \* pads that carry on_buffer_probe
    bus,            \* messages posted on the bus, not yet dispatched
    frame_count,    \* self.frame_count
    log,            \* lines printed so far
    teardown_count, \* number of calls of pipeline.set_state(Gst.State.NULL)
    outdir_made,    \* the output directory was created by this process
    decoded,        \* frames the cropper / tee has taken from the decoder
    tiles_done,     \* tile tokens that reached the aggregator / merge node
    merged,         \* buffers that left the aggregator / merge node src pad
    written,        \* merged frames the encoder/muxer/sink has consumed
    finalized,      \* end-of-stream reached the muxer: trailer written
    posted,         \* bus messages posted by stages so far
    qs              \* one queue element of the graph under observation:
                    \* its properties, the next token its producer will
                    \* push, the tokens it holds, the tokens taken from it

vars == <<shape, args, fs, n_frames, pc, exit_code, pipeline, loop, probes,
          bus, frame_count, log, teardown_count, outdir_made, decoded,
          tiles_done, merged, written, finalized, posted, qs>>

graph == <<decoded, tiles_done, merged, written, finalized>>

(***************************************************************************)
(* Bounds of the model.                                                    *)
(***************************************************************************)
MaxFrames == 2
MaxPosts == 2
MaxTokens == 32

(***************************************************************************)
(* Program constants (tenths for the real-valued ones).                    *)
(***************************************************************************)
TILES_MIN == 1
TILES_MAX == 20
FRAC_MIN == 0
FRAC_MAX == 10
PROGRESS_EVERY_TILE == 50
PROGRESS_EVERY_SPLIT == 100
QUEUE_MAX_BUFFERS == 30

Line(tag, text, n) == [tag |-> tag, text |-> text, n |-> n]

(***************************************************************************)
(* _validate_paths: the first missing file raises FileNotFoundError; then  *)
(* the output directory is created (mkdir may raise an OSError).           *)
(* Result: the exception raised, or "ok".                                  *)
(***************************************************************************)
ValidatePaths(f) ==
    IF ~f.input THEN [exc |-> "FileNotFoundError", text |-> "input"]
    ELSE IF ~f.hef THEN [exc |-> "FileNotFoundError", text |-> "hef"]
    ELSE IF ~f.so THEN [exc |-> "FileNotFoundError", text |-> "postprocess-so"]
    ELSE IF ~f.mkdir_ok THEN [exc |-> "OSError", text |-> "mkdir"]
    ELSE [exc |-> "ok", text |-> ""]

\* mkdir is reached only when the three files exist
MkdirReached(f) == f.input /\ f.hef /\ f.so

(***************************************************************************)
(* _validate_parameters with the range ends excluded (a variant used to    *)
(* test the acceptance claim).                                             *)
(***************************************************************************)
ValidateParametersStrict(a) ==
    IF ~(TILES_MIN < a.tiles_x /\ a.tiles_x < TILES_MAX)
        THEN [exc |-> "ValueError", text |-> "tiles-x"]
    ELSE IF ~(TILES_MIN < a.tiles_y /\ a.tiles_y < TILES_MAX)
        THEN [exc |-> "ValueError", text |-> "tiles-y"]
    ELSE IF ~(FRAC_MIN < a.overlap_x /\ a.overlap_x < FRAC_MAX)
        THEN [exc |-> "ValueError", text |-> "overlap-x"]
    ELSE IF ~(FRAC_MIN < a.overlap_y /\ a.overlap_y < FRAC_MAX)
        THEN [exc |-> "ValueError", text |-> "overlap-y"]
    ELSE IF a.tiling_mode \notin {0, 1}
        THEN [exc |-> "ValueError", text |-> "tiling-mode"]
    ELSE IF ~(FRAC_MIN < a.iou_threshold /\ a.iou_threshold < FRAC_MAX)
        THEN [exc |-> "ValueError", text |-> "iou-threshold"]
    ELSE IF ~(FRAC_MIN < a.border_threshold /\ a.border_threshold < FRAC_MAX)
        THEN [exc |-> "ValueError", text |-> "border-threshold"]
    ELSE [exc |-> "ok", text |-> ""]

(***************************************************************************)
(* _validate_parameters: the checks in source order; the first one that    *)
(* fails raises ValueError naming that parameter.                          *)
(***************************************************************************)
ValidateParameters(a) ==
    IF ~(TILES_MIN <= a.tiles_x /\ a.tiles_x <= TILES_MAX)
        THEN [exc |-> "ValueError", text |-> "tiles-x"]
    ELSE IF ~(TILES_MIN <= a.tiles_y /\ a.tiles_y <= TILES_MAX)
        THEN [exc |-> "ValueError", text |-> "tiles-y"]
    ELSE IF ~(FRAC_MIN <= a.overlap_x /\ a.overlap_x <= FRAC_MAX)
        THEN [exc |-> "ValueError", text |-> "overlap-x"]
    ELSE IF ~(FRAC_MIN <= a.overlap_y /\ a.overlap_y <= FRAC_MAX)
        THEN [exc |-> "ValueError", text |-> "overlap-y"]
    ELSE IF a.tiling_mode \notin {0, 1}
        THEN [exc |-> "ValueError", text |-> "tiling-mode"]
    ELSE IF ~(FRAC_MIN <= a.iou_threshold /\ a.iou_threshold <= FRAC_MAX)
        THEN [exc |-> "ValueError", text |-> "iou-threshold"]
    ELSE IF ~(FRAC_MIN <= a.border_threshold /\ a.border_threshold <= FRAC_MAX)
        THEN [exc |-> "ValueError", text |-> "border-threshold"]
    ELSE [exc |-> "ok", text |-> ""]

(***************************************************************************)
(* __init__ that validates the paths only (variant): the parameter checks  *)
(* are left out.                                                           *)
(***************************************************************************)
ConstructorPathsOnly(s, a, f) ==
    IF ValidatePaths(f).exc # "ok" THEN ValidatePaths(f)
    ELSE [exc |-> "ok", text |-> ""]

(***************************************************************************)
(* __init__: the paths are validated, then (tiling driver only) the        *)
(* parameters.  Result: the exception that leaves the constructor or "ok". *)
(***************************************************************************)
Constructor(s, a, f) ==
    IF ValidatePaths(f).exc # "ok" THEN ValidatePaths(f)
    ELSE IF s = "tile" THEN ValidateParameters(a)
    ELSE [exc |-> "ok", text |-> ""]

(***************************************************************************)
(* main()'s except clauses: the line printed for an exception.  The tiling *)
(* driver reports FileNotFoundError and ValueError with their message, the *)
(* split driver FileNotFoundError only; anything else is "Unexpected".     *)
(***************************************************************************)
MainExcept(s, e) ==
    IF e.exc = "FileNotFoundError" \/ (s = "tile" /\ e.exc = "ValueError")
        THEN Line("ERROR", e.text, 0)
        ELSE Line("UNEXPECTED", e.text, 0)

(***************************************************************************)
(* main(): pipeline = Pipeline(args).  A raised exception is caught by     *)
(* main, printed, and main returns 1 to sys.exit.                          *)
(***************************************************************************)
Construct ==
    /\ pc = "main"
    /\ outdir_made' = (outdir_made \/ (MkdirReached(fs) /\ fs.mkdir_ok))
    /\ LET e == Constructor(shape, args, fs) IN
         IF e.exc = "ok"
            THEN /\ pc' = "run"
                 /\ UNCHANGED <<log, exit_code>>
            ELSE /\ pc' = "done"
                 /\ log' = Append(log, MainExcept(shape, e))
                 /\ exit_code' = 1
    /\ UNCHANGED <<qs, shape, args, fs, n_frames, pipeline, loop, probes, bus,
                   frame_count, teardown_count, posted>>
    /\ UNCHANGED graph

(***************************************************************************)
(* The graph as built from the description string.  The tiling driver's    *)
(* merge node is the hailotileaggregator, the split driver's the           *)
(* hailomuxer, both named in the description.                              *)
(***************************************************************************)
MergeNode(s) == IF s = "tile" THEN "aggregator" ELSE "mux"

\* tokens the inference branch carries per frame: the tiles, or the one
\* rescaled copy of the split shape
TilesPerFrame(s, a) == IF s = "tile" THEN a.tiles_x * a.tiles_y ELSE 1

\* a probe on the inference-branch sink pad of the merge node (variant)
ProbePadTileSink(s) == <<MergeNode(s), "sink_1">>

\* run(): the pad that on_buffer_probe is attached to
ProbePad(s) == <<MergeNode(s), "src">>

ProgressEvery(s) ==
    IF s = "tile" THEN PROGRESS_EVERY_TILE ELSE PROGRESS_EVERY_SPLIT

(***************************************************************************)
(* on_buffer_probe: the new frame_count, and the progress line printed.    *)
(***************************************************************************)
OnBufferProbe(fc) == fc + 1

OnBufferProbeLines(s, fc) ==
    IF OnBufferProbe(fc) % ProgressEvery(s) = 0
        THEN <<Line("PROGRESS", "", OnBufferProbe(fc))>>
        ELSE <<>>

(***************************************************************************)
(* on_message: the lines printed for a message, and whether loop.quit()    *)
(* is called.  A message is [mtype, text, detail, from_pipeline]: detail   *)
(* says whether a debug string came with an error or warning, and          *)
(* from_pipeline whether message.src is the pipeline itself.               *)
(***************************************************************************)
OnMessageLines(m, a, fc) ==
    CASE m.mtype = "ERROR" ->
            <<Line("BUS_ERROR", m.text, 0)>>
            \o (IF m.detail /\ a.debug THEN <<Line("DEBUG", m.text, 0)>> ELSE <<>>)
      [] m.mtype = "EOS" -> <<Line("EOS", "", fc)>>
      [] m.mtype = "WARNING" ->
            <<Line("WARNING", m.text, 0)>>
            \o (IF m.detail /\ a.debug THEN <<Line("DEBUG", m.text, 0)>> ELSE <<>>)
      [] m.mtype = "STATE_CHANGED" ->
            IF m.from_pipeline /\ a.debug THEN <<Line("STATE", "", 0)>> ELSE <<>>
      [] m.mtype = "STREAM_STATUS" ->
            IF a.debug THEN <<Line("STREAM_STATUS", "", 0)>> ELSE <<>>
      [] OTHER -> <<>>

\* variants of the quit decision: an error that leaves the loop running,
\* and a warning that stops it
OnMessageQuitsEosOnly(m) == m.mtype = "EOS"
OnMessageQuitsOnWarning(m) == m.mtype \in {"ERROR", "EOS", "WARNING"}

OnMessageQuits(m) == m.mtype \in {"ERROR", "EOS"}

(***************************************************************************)
(* run(), first part: the banner, build_pipeline and Gst.parse_launch,     *)
(* the probe, the bus watch and the main loop.  The engine may reject the  *)
(* description (GLib.Error): run returns 1.                                *)
(***************************************************************************)
RunBuild ==
    /\ pc = "run"
    /\ \E accepted \in BOOLEAN :
         LET head == Append(log, Line("HEADER", "", 0))
             dbg == IF args.debug
                       THEN Append(head, Line("DEBUG_PIPELINE", "", 0))
                       ELSE head
         IN IF accepted
               THEN /\ pipeline' = "created"
                    /\ probes' = {ProbePad(shape)}
                    /\ loop' = "created"
                    /\ log' = dbg
                    /\ pc' = "start"
                    /\ UNCHANGED exit_code
               ELSE /\ log' = Append(dbg, Line("ERROR_CREATE", "", 0))
                    /\ pc' = "done"
                    /\ exit_code' = 1
                    /\ UNCHANGED <<pipeline, probes, loop>>
    /\ UNCHANGED <<qs, shape, args, fs, n_frames, bus, frame_count,
                   teardown_count, outdir_made, posted>>
    /\ UNCHANGED graph

(***************************************************************************)
(* set_state(PLAYING) whose FAILURE is printed but not returned on         *)
(* (variant): run() goes on to loop.run().                                 *)
(***************************************************************************)
RunStartIgnoresFailure ==
    /\ pc = "start"
    /\ \E ret \in {"FAILURE", "ASYNC"} :
         IF ret = "FAILURE"
            THEN /\ pipeline' = "start_failed"
                 /\ log' = log \o <<Line("START", "", 0), Line("ERROR_START", "", 0)>>
            ELSE /\ pipeline' = "PLAYING"
                 /\ log' = Append(log, Line("START", "", 0))
    /\ pc' = "loop"
    /\ loop' = "running"
    /\ UNCHANGED <<qs, shape, args, fs, n_frames, exit_code, probes, bus,
                   frame_count, teardown_count, outdir_made, posted>>
    /\ UNCHANGED graph

(***************************************************************************)
(* run(), second part: set_state(PLAYING).  FAILURE makes run return 1;    *)
(* otherwise loop.run() is entered.                                        *)
(***************************************************************************)
RunStart ==
    /\ pc = "start"
    /\ \E ret \in {"FAILURE", "ASYNC"} :
         IF ret = "FAILURE"
            THEN /\ pipeline' = "start_failed"
                 /\ log' = log \o <<Line("START", "", 0), Line("ERROR_START", "", 0)>>
                 /\ pc' = "done"
                 /\ exit_code' = 1
                 /\ UNCHANGED loop
            ELSE /\ pipeline' = "PLAYING"
                 /\ log' = Append(log, Line("START", "", 0))
                 /\ pc' = "loop"
                 /\ loop' = "running"
                 /\ UNCHANGED exit_code
    /\ UNCHANGED <<qs, shape, args, fs, n_frames, probes, bus, frame_count,
                   teardown_count, outdir_made, posted>>
    /\ UNCHANGED graph

(***************************************************************************)
(* One iteration of the main loop: the bus watch pops one message and      *)
(* calls on_message.                                                       *)
(***************************************************************************)
LoopDispatch ==
    /\ pc = "loop"
    /\ loop = "running"
    /\ bus # <<>>
    /\ LET m == Head(bus) IN
         /\ log' = log \o OnMessageLines(m, args, frame_count)
         /\ loop' = IF OnMessageQuits(m) /\ loop # "None" THEN "quit" ELSE loop
    /\ bus' = Tail(bus)
    /\ UNCHANGED <<qs, shape, args, fs, n_frames, pc, exit_code, pipeline, probes,
                   frame_count, teardown_count, outdir_made, posted>>
    /\ UNCHANGED graph

\* loop.run() returns after loop.quit()
LoopReturn ==
    /\ pc = "loop"
    /\ loop = "quit"
    /\ pc' = "finally"
    /\ UNCHANGED <<qs, shape, args, fs, n_frames, exit_code, pipeline, loop, probes,
                   bus, frame_count, log, teardown_count, outdir_made, posted>>
    /\ UNCHANGED graph

\* an interrupt handled by returning at once, past the teardown (variant)
InterruptReturns ==
    /\ pc = "loop"
    /\ loop' = "quit"
    /\ log' = Append(log, Line("INTERRUPTED", "", 0))
    /\ pc' = "done"
    /\ exit_code' = 0
    /\ UNCHANGED <<qs, shape, args, fs, n_frames, pipeline, probes,
                   bus, frame_count, teardown_count, outdir_made, posted>>
    /\ UNCHANGED graph

\* KeyboardInterrupt raised inside loop.run(): the except clause
Interrupt ==
    /\ pc = "loop"
    /\ loop' = "quit"
    /\ log' = Append(log, Line("INTERRUPTED", "", 0))
    /\ pc' = "finally"
    /\ UNCHANGED <<qs, shape, args, fs, n_frames, exit_code, pipeline, probes,
                   bus, frame_count, teardown_count, outdir_made, posted>>
    /\ UNCHANGED graph

(***************************************************************************)
(* The finally clause and "return 0": the graph is set to NULL, the totals *)
(* are printed, main returns 0 to sys.exit.                                *)
(***************************************************************************)
RunFinally ==
    /\ pc = "finally"
    /\ pipeline' = "NULL"
    /\ teardown_count' = teardown_count + 1
    /\ log' = log \o <<Line("DONE_SAVED", "", 0),
                       Line("DONE_FRAMES", "", frame_count)>>
                  \o (IF shape = "tile"
                         THEN <<Line("DONE_TILES", "", args.tiles_x * args.tiles_y)>>
                         ELSE <<>>)
    /\ exit_code' = 0
    /\ pc' = "done"
    /\ UNCHANGED <<qs, shape, args, fs, n_frames, loop, probes, bus, frame_count,
                   outdir_made, posted>>
    /\ UNCHANGED graph

(***************************************************************************)
(* The running graph (streaming threads of the engine).  A buffer crossing *)
(* a pad runs the probes attached to that pad.                             *)
(***************************************************************************)
Cross(pad) ==
    IF pad \in probes
       THEN /\ frame_count' = OnBufferProbe(frame_count)
            /\ log' = log \o OnBufferProbeLines(shape, frame_count)
       ELSE UNCHANGED <<frame_count, log>>

\* the cropper (tee) takes one decoded frame: one whole-frame token goes to
\* sink_0 of the merge node, the tile tokens enter the inference branch
CropperPush ==
    /\ pipeline = "PLAYING"
    /\ decoded < n_frames
    /\ decoded' = decoded + 1
    /\ Cross(<<MergeNode(shape), "sink_0">>)
    /\ UNCHANGED <<qs, shape, args, fs, n_frames, pc, exit_code, pipeline, loop,
                   probes, bus, teardown_count, outdir_made, posted,
                   tiles_done, merged, written, finalized>>

\* one tile token leaves the inference branch at sink_1 of the merge node
TilePush ==
    /\ pipeline = "PLAYING"
    /\ tiles_done < decoded * TilesPerFrame(shape, args)
    /\ tiles_done' = tiles_done + 1
    /\ Cross(<<MergeNode(shape), "sink_1">>)
    /\ UNCHANGED <<qs, shape, args, fs, n_frames, pc, exit_code, pipeline, loop,
                   probes, bus, teardown_count, outdir_made, posted,
                   decoded, merged, written, finalized>>

\* the merge node pushes the stitched frame on its src pad
MergePush ==
    /\ pipeline = "PLAYING"
    /\ merged < decoded
    /\ tiles_done >= (merged + 1) * TilesPerFrame(shape, args)
    /\ merged' = merged + 1
    /\ Cross(<<MergeNode(shape), "src">>)
    /\ UNCHANGED <<qs, shape, args, fs, n_frames, pc, exit_code, pipeline, loop,
                   probes, bus, teardown_count, outdir_made, posted,
                   decoded, tiles_done, written, finalized>>

\* overlay, encoder, muxer and file sink consume one merged frame
SinkWrite ==
    /\ pipeline = "PLAYING"
    /\ written < merged
    /\ written' = written + 1
    /\ UNCHANGED <<qs, shape, args, fs, n_frames, pc, exit_code, pipeline, loop,
                   probes, bus, frame_count, log, teardown_count, outdir_made,
                   posted, decoded, tiles_done, merged, finalized>>

\* the input is exhausted and drained: end-of-stream reaches the muxer, which
\* writes its trailer, and the sink; the pipeline posts EOS on the bus
GraphEos ==
    /\ pipeline = "PLAYING"
    /\ ~finalized
    /\ decoded = n_frames
    /\ written = n_frames
    /\ finalized' = TRUE
    /\ bus' = Append(bus, [mtype |-> "EOS", text |-> "", detail |-> FALSE,
                           from_pipeline |-> TRUE])
    /\ UNCHANGED <<qs, shape, args, fs, n_frames, pc, exit_code, pipeline, loop,
                   probes, frame_count, log, teardown_count, outdir_made,
                   posted, decoded, tiles_done, merged, written>>

\* what a stage can post besides EOS
StageMessages ==
    {[mtype |-> "ERROR", text |-> "e1", detail |-> TRUE, from_pipeline |-> FALSE],
     [mtype |-> "ERROR", text |-> "e2", detail |-> FALSE, from_pipeline |-> FALSE],
     [mtype |-> "WARNING", text |-> "w1", detail |-> TRUE, from_pipeline |-> FALSE],
     [mtype |-> "STATE_CHANGED", text |-> "", detail |-> FALSE, from_pipeline |-> TRUE],
     [mtype |-> "STREAM_STATUS", text |-> "", detail |-> FALSE, from_pipeline |-> FALSE]}

StagePost ==
    /\ pipeline = "PLAYING"
    /\ posted < MaxPosts
    /\ \E m \in StageMessages : bus' = Append(bus, m)
    /\ posted' = posted + 1
    /\ UNCHANGED <<qs, shape, args, fs, n_frames, pc, exit_code, pipeline, loop,
                   probes, frame_count, log, teardown_count, outdir_made>>
    /\ UNCHANGED graph

(***************************************************************************)
(* The queue elements of the two description strings, in the order they    *)
(* are written: each is "queue leaky=no max-size-buffers=30                *)
(* max-size-bytes=0 max-size-time=0" (the byte and time limits are off, so *)
(* the buffer count is the only limit).                                    *)
(***************************************************************************)
QueueElem(leaky, max_buffers) ==
    [leaky |-> leaky, max_size_buffers |-> max_buffers]

\* the tiling description with its first tile-branch queue leaking (variant)
TileQueuesOneLeaky ==
    <<QueueElem("no", QUEUE_MAX_BUFFERS), QueueElem("downstream", QUEUE_MAX_BUFFERS),
      QueueElem("no", QUEUE_MAX_BUFFERS), QueueElem("no", QUEUE_MAX_BUFFERS),
      QueueElem("no", QUEUE_MAX_BUFFERS), QueueElem("no", QUEUE_MAX_BUFFERS),
      QueueElem("no", QUEUE_MAX_BUFFERS)>>

TileQueues ==
    <<QueueElem("no", QUEUE_MAX_BUFFERS), QueueElem("no", QUEUE_MAX_BUFFERS),
      QueueElem("no", QUEUE_MAX_BUFFERS), QueueElem("no", QUEUE_MAX_BUFFERS),
      QueueElem("no", QUEUE_MAX_BUFFERS), QueueElem("no", QUEUE_MAX_BUFFERS),
      QueueElem("no", QUEUE_MAX_BUFFERS)>>

SplitQueues ==
    <<QueueElem("no", QUEUE_MAX_BUFFERS), QueueElem("no", QUEUE_MAX_BUFFERS),
      QueueElem("no", QUEUE_MAX_BUFFERS), QueueElem("no", QUEUE_MAX_BUFFERS),
      QueueElem("no", QUEUE_MAX_BUFFERS)>>

Queues(s) == IF s = "tile" THEN TileQueues ELSE SplitQueues

(***************************************************************************)
(* A queue element as configured: full when it holds max-size-buffers      *)
(* items (0 means no limit).  A full queue with leaky=no blocks its        *)
(* producer; leaky=upstream drops the incoming item, leaky=downstream the  *)
(* oldest queued one.                                                      *)
(***************************************************************************)
QueueFull(c, q) == c.max_size_buffers > 0 /\ Len(q) >= c.max_size_buffers

QueueAccepts(c, q) == ~QueueFull(c, q) \/ c.leaky # "no"

QueuePush(c, q, x) ==
    IF ~QueueFull(c, q) THEN Append(q, x)
    ELSE IF c.leaky = "upstream" THEN q
    ELSE IF c.leaky = "downstream" THEN Append(Tail(q), x)
    ELSE q

\* the upstream stage pushes its next token into the queue, or blocks
QueueProduce ==
    /\ pipeline = "PLAYING"
    /\ qs.next <= MaxTokens
    /\ QueueAccepts(qs.cfg, qs.q)
    /\ qs' = [qs EXCEPT !.q = QueuePush(qs.cfg, qs.q, qs.next),
                        !.next = qs.next + 1]
    /\ UNCHANGED <<shape, args, fs, n_frames, pc, exit_code, pipeline, loop,
                   probes, bus, frame_count, log, teardown_count, outdir_made,
                   posted>>
    /\ UNCHANGED graph

\* the downstream stage takes the oldest token from the queue
QueueConsume ==
    /\ pipeline = "PLAYING"
    /\ qs.q # <<>>
    /\ qs' = [qs EXCEPT !.q = Tail(qs.q), !.out = Append(qs.out, Head(qs.q))]
    /\ UNCHANGED <<shape, args, fs, n_frames, pc, exit_code, pipeline, loop,
                   probes, bus, frame_count, log, teardown_count, outdir_made,
                   posted>>
    /\ UNCHANGED graph

QueueIdle(c) == [cfg |-> c, next |-> 1, q |-> <<>>, out |-> <<>>]

(***************************************************************************)
(* Initial states: the process starts in main() with a parsed command      *)
(* line.                                                                   *)
(***************************************************************************)
TileArgs(tx, ty, ox, oy, md, iou, bd, dbg) ==
    [tiles_x |-> tx, tiles_y |-> ty, overlap_x |-> ox, overlap_y |-> oy,
     tiling_mode |-> md, iou_threshold |-> iou, border_threshold |-> bd,
     debug |-> dbg]

RunArgs ==
    {TileArgs(2, 2, 2, 2, 0, 3, 1, FALSE),
     TileArgs(2, 2, 0, 0, 0, 3, 1, TRUE),
     TileArgs(1, 2, 0, 10, 1, 0, 10, FALSE),
     TileArgs(21, 2, 2, 11, 0, 11, 1, FALSE),
     TileArgs(2, 0, 2, 2, 2, 3, 1, FALSE)}

FsStates == [input : BOOLEAN, hef : BOOLEAN, so : BOOLEAN, mkdir_ok : BOOLEAN]

InitCommon ==
    /\ pc = "main"
    /\ exit_code = -1
    /\ pipeline = "None"
    /\ loop = "None"
    /\ probes = {}
    /\ bus = <<>>
    /\ frame_count = 0
    /\ log = <<>>
    /\ teardown_count = 0
    /\ outdir_made = FALSE
    /\ decoded = 0
    /\ tiles_done = 0
    /\ merged = 0
    /\ written = 0
    /\ finalized = FALSE
    /\ posted = 0
    /\ qs = QueueIdle(TileQueues[1])

\* the split driver's command line has no tiling or aggregation options
SplitArgs == {[debug |-> d] : d \in BOOLEAN}

Init ==
    /\ \/ shape = "tile" /\ args \in RunArgs
       \/ shape = "split" /\ args \in SplitArgs
    /\ fs \in FsStates
    /\ n_frames \in 1..MaxFrames
    /\ InitCommon

Next ==
    \/ Construct
    \/ RunBuild
    \/ RunStart
    \/ LoopDispatch
    \/ LoopReturn
    \/ Interrupt
    \/ RunFinally
    \/ CropperPush
    \/ TilePush
    \/ MergePush
    \/ SinkWrite
    \/ GraphEos
    \/ StagePost

Spec == Init /\ [][Next]_vars

(***************************************************************************)
(* Validation alone: the tiling driver is constructed on every combination *)
(* of boundary and interior parameter values, all files present.           *)
(***************************************************************************)
TilesValues == {0, 1, 2, 20, 21}
FracValues == {-1, 0, 5, 10, 11}
ModeValues == {-1, 0, 1, 2}

InitValidate ==
    /\ shape = "tile"
    /\ \E tx \in TilesValues, ty \in TilesValues, ox \in FracValues,
          oy \in FracValues, md \in ModeValues, iou \in FracValues,
          bd \in FracValues :
            args = TileArgs(tx, ty, ox, oy, md, iou, bd, FALSE)
    /\ fs = [input |-> TRUE, hef |-> TRUE, so |-> TRUE, mkdir_ok |-> TRUE]
    /\ n_frames = 1
    /\ InitCommon

NextValidate == Construct

SpecValidate == InitValidate /\ [][NextValidate]_vars

(***************************************************************************)
(* Helpers of the properties.                                              *)
(***************************************************************************)
HasLine(tag) == \E i \in 1..Len(log) : log[i].tag = tag

LinesOf(l, tag) == {i \in 1..Len(l) : l[i].tag = tag}

Interrupted == HasLine("INTERRUPTED")

\* the outcome the event handler has recorded: the last error or
\* end-of-stream line it printed
EventLines(l) == {i \in 1..Len(l) : l[i].tag \in {"BUS_ERROR", "EOS"}}

RecordedOutcome(l) ==
    IF EventLines(l) = {}
       THEN Line("NONE", "", 0)
       ELSE l[CHOOSE i \in EventLines(l) : \A j \in EventLines(l) : j <= i]

\* the constraints of the parameter validator that a parameter set violates
Violated(a) ==
    {c \in {"tiles-x", "tiles-y", "overlap-x", "overlap-y", "tiling-mode",
            "iou-threshold", "border-threshold"} :
        \/ c = "tiles-x" /\ ~(a.tiles_x \in 1..20)
        \/ c = "tiles-y" /\ ~(a.tiles_y \in 1..20)
        \/ c = "overlap-x" /\ ~(a.overlap_x \in 0..10)
        \/ c = "overlap-y" /\ ~(a.overlap_y \in 0..10)
        \/ c = "tiling-mode" /\ ~(a.tiling_mode \in {0, 1})
        \/ c = "iou-threshold" /\ ~(a.iou_threshold \in 0..10)
        \/ c = "border-threshold" /\ ~(a.border_threshold \in 0..10)}

\* the constraints named by the validation failure that was printed
Reported == {log[i].text : i \in LinesOf(log, "ERROR")}

(***************************************************************************)
(* C1: exit code.  The process exits 0 only when the run succeeded, and 1  *)
(* for a validation, construction or startup failure; a run ended by an    *)
(* error message from a stage is not reported as exit 0.                   *)
(***************************************************************************)
C1_ExitCodeReflectsOutcome ==
    pc = "done" =>
        /\ exit_code \in {0, 1}
        /\ (HasLine("ERROR") \/ HasLine("UNEXPECTED") \/ HasLine("ERROR_CREATE")
               \/ HasLine("ERROR_START")) => exit_code = 1
        /\ exit_code = 0 => ~HasLine("BUS_ERROR")

(***************************************************************************)
(* C2: every run that ends with a constructed graph has set the graph to   *)
(* NULL and printed the final frame counter before the process exits.      *)
(***************************************************************************)
C2_TerminalTeardown ==
    (pc = "done" /\ pipeline # "None") =>
        (teardown_count >= 1 /\ pipeline = "NULL" /\ HasLine("DONE_FRAMES"))

(***************************************************************************)
(* C3: a validation failure names every violated constraint.               *)
(***************************************************************************)
C3_AllViolationsReported ==
    (pc = "done" /\ HasLine("ERROR")) => Reported = Violated(args)

(***************************************************************************)
(* C4: with the files present, the parameter set is accepted if and only   *)
(* if tiles_x, tiles_y are in [1,20], the overlaps and the two thresholds  *)
(* are in [0,1] (0..10 tenths) and the tiling mode is 0 or 1.              *)
(***************************************************************************)
C4_AcceptIffInRange ==
    pc # "main" =>
        ((pc = "run" /\ exit_code = -1)
           <=> /\ args.tiles_x \in 1..20
               /\ args.tiles_y \in 1..20
               /\ args.overlap_x \in 0..10
               /\ args.overlap_y \in 0..10
               /\ args.tiling_mode \in {0, 1}
               /\ args.iou_threshold \in 0..10
               /\ args.border_threshold \in 0..10)

C4_Witness ==
    /\ pc = "run"
    /\ args.tiles_x = 20
    /\ args.tiles_y = 1
    /\ args.overlap_x = 0
    /\ args.overlap_y = 10

(***************************************************************************)
(* C5: after a KeyboardInterrupt in the event loop the graph is set to     *)
(* NULL exactly once: not before the finally clause has run, once after.   *)
(***************************************************************************)
C5_InterruptTeardownOnce ==
    Interrupted =>
        /\ pc \in {"finally", "done"}
        /\ teardown_count = (IF pc = "done" THEN 1 ELSE 0)

C5_Witness ==
    /\ Interrupted
    /\ pc = "done"
    /\ teardown_count = 1
    /\ HasLine("WARNING")
    /\ frame_count > 0

(***************************************************************************)
(* C6: a graph torn down after an interrupt or an error message, with      *)
(* frames still in flight, has had end-of-stream delivered to the muxer    *)
(* (the output file is finalized).                                         *)
(***************************************************************************)
C6_TeardownFinalizes ==
    (/\ pipeline = "NULL"
     /\ (Interrupted \/ HasLine("BUS_ERROR"))
     /\ written < decoded) => finalized

(***************************************************************************)
(* C7: once the handler has recorded an error, no later step replaces it:  *)
(* the recorded outcome stays that error with its message, also when       *)
(* end-of-stream is posted afterwards.                                     *)
(***************************************************************************)
C7_ErrorNotOverwritten ==
    [][RecordedOutcome(log).tag = "BUS_ERROR"
          => RecordedOutcome(log') = RecordedOutcome(log)]_vars

C7_Witness ==
    /\ pc = "done"
    /\ RecordedOutcome(log) = Line("BUS_ERROR", "e1", 0)
    /\ finalized
    /\ \E i \in 1..Len(bus) : bus[i].mtype = "EOS"

(***************************************************************************)
(* C8: frame_count is the number of buffers that left the merge node's src *)
(* pad, whatever else happened; every total printed is that number, and    *)
(* after a complete run it is the number of input frames, not the number   *)
(* of tile tokens.                                                         *)
(***************************************************************************)
C8_FrameCounter ==
    /\ frame_count = merged
    /\ \A i \in LinesOf(log, "DONE_FRAMES") : log[i].n = merged
    /\ \A i \in LinesOf(log, "EOS") : log[i].n = n_frames
    /\ finalized => frame_count = n_frames

C8_Witness ==
    /\ pc = "done"
    /\ shape = "tile"
    /\ args.tiles_x = 2 /\ args.tiles_y = 2
    /\ n_frames >= 2
    /\ finalized
    /\ tiles_done = 4 * n_frames
    /\ \E i \in LinesOf(log, "DONE_FRAMES") : log[i].n = n_frames
    /\ HasLine("WARNING")

(***************************************************************************)
(* C10: the step that handles a warning leaves the position of run(), the  *)
(* main loop, the graph's state, the teardown count and the frame counter  *)
(* unchanged.                                                              *)
(***************************************************************************)
C10_WarningNoTransition ==
    [][(/\ Len(log') > Len(log)
        /\ log'[Len(log) + 1].tag = "WARNING")
          => /\ pc' = pc
             /\ loop' = loop
             /\ pipeline' = pipeline
             /\ teardown_count' = teardown_count
             /\ frame_count' = frame_count
             /\ exit_code' = exit_code]_vars

C10_Witness ==
    /\ pc = "loop"
    /\ loop = "running"
    /\ pipeline = "PLAYING"
    /\ Cardinality(LinesOf(log, "WARNING")) >= 2
    /\ frame_count > 0
    /\ teardown_count = 0

(***************************************************************************)
(* C11: a failed start ends the run at once: the main loop was never run,  *)
(* no bus message was handled, nothing was torn down and the frame counter *)
(* is 0.  The main loop is entered only with a graph that was built and    *)
(* whose start did not fail.                                               *)
(***************************************************************************)
C11_StartupFailureNeverRuns ==
    /\ HasLine("ERROR_START") =>
          /\ pc = "done"
          /\ exit_code = 1
          /\ loop = "created"
          /\ frame_count = 0
          /\ \A i \in 1..Len(log) :
                log[i].tag \notin {"BUS_ERROR", "EOS", "WARNING", "DEBUG", "STATE",
                                   "STREAM_STATUS", "INTERRUPTED", "DONE_FRAMES"}
    /\ (pc \in {"loop", "finally"} \/ loop \in {"running", "quit"}) =>
          /\ pipeline \in {"PLAYING", "NULL"}
          /\ probes # {}
          /\ HasLine("HEADER")
          /\ HasLine("START")
          /\ ~HasLine("ERROR_CREATE")
          /\ ~HasLine("ERROR_START")

C11_Witness ==
    /\ HasLine("ERROR_START")
    /\ pc = "done"
    /\ pipeline = "start_failed"
    /\ frame_count = 0

(***************************************************************************)
(* C12: validation comes before any graph work.  After a validation        *)
(* failure nothing of the graph exists (no description built, no pipeline, *)
(* no loop, no probe, nothing started or torn down); only the output       *)
(* directory may have been created.  Whenever graph work has begun, the    *)
(* three files exist and (tiling driver) no parameter constraint is        *)
(* violated.                                                               *)
(***************************************************************************)
C12_ValidationBeforeGraph ==
    /\ (HasLine("ERROR") \/ HasLine("UNEXPECTED")) =>
          /\ pc = "done"
          /\ Len(log) = 1
          /\ pipeline = "None"
          /\ loop = "None"
          /\ probes = {}
          /\ bus = <<>>
          /\ frame_count = 0
          /\ teardown_count = 0
          /\ decoded = 0 /\ tiles_done = 0 /\ merged = 0 /\ written = 0
          /\ ~finalized
    /\ (pc \in {"run", "start", "loop", "finally"} \/ pipeline # "None"
          \/ HasLine("HEADER")) =>
          /\ fs.input /\ fs.hef /\ fs.so
          /\ shape = "tile" => Violated(args) = {}

C12_Witness ==
    /\ shape = "tile"
    /\ HasLine("ERROR")
    /\ Cardinality(Violated(args)) >= 2
    /\ outdir_made
    /\ pipeline = "None"
    /\ pc = "done"

(***************************************************************************)
(* One queue of a running graph, any queue of either description: the      *)
(* upstream stage pushes tokens 1, 2, ... and the downstream stage takes   *)
(* them at its own pace.  The downstream stage's thread keeps being        *)
(* scheduled (weak fairness); the upstream stage may stall.                *)
(***************************************************************************)
InitQueue ==
    /\ \/ shape = "tile" /\ args = TileArgs(2, 2, 2, 2, 0, 3, 1, FALSE)
       \/ shape = "split" /\ args = [debug |-> FALSE]
    /\ fs = [input |-> TRUE, hef |-> TRUE, so |-> TRUE, mkdir_ok |-> TRUE]
    /\ n_frames = MaxTokens
    /\ pc = "loop"
    /\ exit_code = -1
    /\ pipeline = "PLAYING"
    /\ loop = "running"
    /\ probes = {ProbePad(shape)}
    /\ bus = <<>>
    /\ frame_count = 0
    /\ log = <<Line("HEADER", "", 0), Line("START", "", 0)>>
    /\ teardown_count = 0
    /\ outdir_made = FALSE
    /\ decoded = 0
    /\ tiles_done = 0
    /\ merged = 0
    /\ written = 0
    /\ finalized = FALSE
    /\ posted = 0
    /\ \E i \in 1..Len(Queues(shape)) : qs = QueueIdle(Queues(shape)[i])

NextQueue ==
    \/ QueueProduce
    \/ QueueConsume

SpecQueue == InitQueue /\ [][NextQueue]_vars /\ WF_vars(QueueConsume)

Range(f) == {f[i] : i \in 1..Len(f)}

(***************************************************************************)
(* C13: every queue of both descriptions holds at most 30 items and is     *)
(* non-discarding: what was taken from it followed by what it holds is     *)
(* exactly the tokens pushed, in push order (a full queue held its         *)
(* producer back instead of dropping), and every token in the queue is     *)
(* eventually taken by the downstream stage.                               *)
(***************************************************************************)
C13_QueueState ==
    /\ \A i \in 1..Len(Queues(shape)) :
          /\ Queues(shape)[i].leaky = "no"
          /\ Queues(shape)[i].max_size_buffers = 30
    /\ Len(qs.q) <= 30
    /\ qs.out \o qs.q = [i \in 1..(qs.next - 1) |-> i]

====
